---- MODULE Spec2Model ----
(***************************************************************************)
(* A model of the two tool adapters of the repository:                     *)
(*   src/binance_mcp.py  the crypto exchange adapter (12 tools, all GET)   *)
(*   src/dhan_mcp.py     the brokerage adapter (17 tools through call_api) *)
(*                                                                         *)
(* Python values are records [t, s, items]: t is the Python type, s the    *)
(* text of a scalar, items the elements of a list or tuple.  A dict is a   *)
(* function from its keys (strings) to values.                             *)
(*                                                                         *)
(* The libraries are modelled by their interface: client.request / get is  *)
(* one call that either yields a response (status, body) or raises;        *)
(* raise_for_status raises unless the status is 2xx; resp.json() raises    *)
(* unless the body is a JSON document; `async with` closes the client on   *)
(* every exit.  mcp.ctx is taken to evaluate to the framework's context    *)
(* object, which call_api never uses.  A task is one coroutine of the      *)
(* tool-hosting framework, running one tool invocation at a time.          *)
(***************************************************************************)
EXTENDS Integers, Sequences, FiniteSets, TLC

VARIABLES
    environ,           \* os.environ, the two credential variables
    startEnv,          \* history: os.environ at the time the module was loaded
    CLIENT_ID,         \* dhan_mcp.CLIENT_ID
    ACCESS_TOKEN,      \* dhan_mcp.ACCESS_TOKEN
    HEADERS,           \* dhan_mcp.HEADERS (a module-level dict)
    DHAN_BASE_URL,     \* dhan_mcp.BASE_URL
    BINANCE_BASE_URL,  \* binance_mcp.BASE_URL
    pc,                \* per task: "idle", "waiting", "closing", "done"
    call,              \* per task: the tool invoked and its arguments
    wire,              \* per task: the requests handed to the HTTP client
    outcome,           \* per task: what the HTTP call produced
    pending,           \* per task: what the body of the with-block produced
    result,            \* per task: what the caller received
    events,            \* per task: the observable events, in order
    open,              \* the tasks whose HTTP client is open
    sIn,               \* serializers: the mapping the caller passes
    sParams,           \* serializers: that mapping object after the calls
    sOutB,             \* serializers: result of serialize_params
    sOutD,             \* serializers: result of serialize
    sDone              \* serializers: both have run

vars == <<environ, startEnv, CLIENT_ID, ACCESS_TOKEN, HEADERS, DHAN_BASE_URL,
          BINANCE_BASE_URL, pc, call, wire, outcome, pending, result, events,
          open, sIn, sParams, sOutB, sOutD, sDone>>

configVars == <<CLIENT_ID, ACCESS_TOKEN, HEADERS, DHAN_BASE_URL, BINANCE_BASE_URL>>
taskVars == <<pc, call, wire, outcome, pending, result, events, open>>
serVars == <<sIn, sParams, sOutB, sOutD, sDone>>

(***************************************************************************)
(* Bounds                                                                  *)
(***************************************************************************)
MaxListLen == 2    \* longest list of symbols / targets passed to a tool
MaxKwargs == 2     \* most extra keyword arguments passed to place_order
MaxParams == 3     \* most keys of a mapping passed to a serializer
MaxTasks == 2      \* most tool invocations in flight at once

(***************************************************************************)
(* Python values                                                           *)
(***************************************************************************)
None == [t |-> "none", s |-> "", items |-> <<>>]
Str(x) == [t |-> "str", s |-> x, items |-> <<>>]
Num(x) == [t |-> "num", s |-> x, items |-> <<>>]
Bool(x) == [t |-> "bool", s |-> x, items |-> <<>>]
List(xs) == [t |-> "list", s |-> "", items |-> xs]
Tuple(xs) == [t |-> "tuple", s |-> "", items |-> xs]

EmptyDict == <<>>

Symbols == {"BTCUSDT", "ETHUSDT"}

RECURSIVE SeqsUpTo(_, _)
SeqsUpTo(S, n) ==
    IF n = 0 THEN {<<>>}
    ELSE LET shorter == SeqsUpTo(S, n - 1)
         IN  shorter \cup {Append(q, x) : q \in {r \in shorter : Len(r) = n - 1}, x \in S}

SymbolLists == {List(q) : q \in SeqsUpTo(Symbols, MaxListLen)}

(***************************************************************************)
(* json.dumps of a list of strings: '["a", "b"]'                           *)
(***************************************************************************)
RECURSIVE json_join(_)
json_join(xs) ==
    IF Len(xs) = 0 THEN ""
    ELSE IF Len(xs) = 1 THEN "\"" \o Head(xs) \o "\""
    ELSE "\"" \o Head(xs) \o "\", " \o json_join(Tail(xs))

json_dumps(v) == Str("[" \o json_join(v.items) \o "]")

(***************************************************************************)
(* binance_mcp.serialize_params: a loop over params.items() that fills a   *)
(* fresh dict.  The loop state carries the caller's mapping as well, so    *)
(* that a write to it would show.                                          *)
(***************************************************************************)
serialize_step_falsy(st, k) ==
    LET v == st.params[k]
    IN  IF v = None \/ v.s \in {"0", "False"} \/ (v.t = "str" /\ v.s = "")
           \/ (v.t \in {"list", "tuple"} /\ v.items = <<>>)
        THEN st
        ELSE [st EXCEPT !.out = (k :> (IF v.t = "list" THEN json_dumps(v) ELSE v)) @@ st.out]

serialize_step(st, k) ==
    LET v == st.params[k]
    IN  IF v = None
        THEN st
        ELSE [st EXCEPT !.out = (k :> (IF v.t = "list" THEN json_dumps(v) ELSE v)) @@ st.out]

RECURSIVE serialize_loop(_, _)
serialize_loop(st, keys) ==
    IF keys = {} THEN st
    ELSE LET k == CHOOSE x \in keys : TRUE
         IN  serialize_loop(serialize_step(st, k), keys \ {k})

serialize_run(params) == serialize_loop([params |-> params, out |-> EmptyDict], DOMAIN params)

serialize_params(params) == serialize_run(params).out

(***************************************************************************)
(* dhan_mcp.serialize: a dict comprehension                                *)
(***************************************************************************)
serialize(params) ==
    [k \in {j \in DOMAIN params : params[j] # None} |->
        IF params[k].t = "list" THEN json_dumps(params[k]) ELSE params[k]]

(***************************************************************************)
(* Request descriptors.  A dict argument that may be None is wrapped:      *)
(* NoDict is Python's None, Given(d) the dict d.                           *)
(***************************************************************************)
NoDict == [given |-> FALSE, dict |-> EmptyDict]
Given(d) == [given |-> TRUE, dict |-> d]

\* params or {}
OrEmpty(p) == IF p.given /\ p.dict # EmptyDict THEN p.dict ELSE EmptyDict

\* body.update(kwargs)
dict_update_keep(body, kwargs) ==
    [k \in DOMAIN body \cup DOMAIN kwargs |->
        IF k \in DOMAIN body THEN body[k] ELSE kwargs[k]]

dict_update(body, kwargs) ==
    [k \in DOMAIN body \cup DOMAIN kwargs |->
        IF k \in DOMAIN kwargs THEN kwargs[k] ELSE body[k]]

(***************************************************************************)
(* binance_mcp: every tool is client.get(f"{BASE_URL}<path>", params=...)  *)
(* and returns resp.text.                                                  *)
(***************************************************************************)
client_get_as_body(path, params) ==
    [adapter |-> "binance", method |-> "GET", url |-> BINANCE_BASE_URL \o path,
     headers |-> EmptyDict, params |-> EmptyDict, json |-> Given(params)]

client_get(path, params) ==
    [adapter |-> "binance", method |-> "GET", url |-> BINANCE_BASE_URL \o path,
     headers |-> EmptyDict, params |-> params, json |-> NoDict]

ExchangeInfoOfASymbol(a) == client_get("exchangeInfo", [symbol |-> a.symbol])

ExchangeInfoOfAllSymbols == client_get("exchangeInfo", EmptyDict)

getTradeData(a) ==
    client_get("klines",
               serialize_params([symbol |-> a.symbol, interval |-> a.interval,
                                 startTime |-> a.startTime, endTime |-> a.endTime,
                                 limit |-> a.limit]))

AggTrades(a) == client_get("aggTrades", [symbol |-> a.symbol, limit |-> a.limit])

TradeHistory(a) == client_get("historicalTrades", [symbol |-> a.symbol, limit |-> a.limit])

Depth(a) == client_get("depth", [symbol |-> a.symbol])

CurrentAvgPrice(a) == client_get("avgPrice", [symbol |-> a.symbol])

PriceTickerIn24Hr(a) == client_get("ticker/24hr", [symbol |-> a.symbol])

TradingDayTicker(a) == client_get("ticker/tradingDay", serialize_params([symbols |-> a.symbols]))

SymbolPriceTicker_raw(a) ==
    client_get("ticker/price", [symbol |-> a.symbol, symbols |-> a.symbols])

SymbolPriceTicker(a) ==
    client_get("ticker/price", serialize_params([symbol |-> a.symbol, symbols |-> a.symbols]))

SymbolOrderBookTicker(a) ==
    client_get("ticker/bookTicker",
               serialize_params([symbol |-> a.symbol, symbols |-> a.symbols]))

RollingWindowTicker(a) ==
    client_get("ticker",
               serialize_params([symbol |-> a.symbol, symbols |-> a.symbols,
                                 windowSize |-> a.windowSize, type |-> a.type]))

(***************************************************************************)
(* dhan_mcp.call_api (the ctx argument is not used by it) and its tools    *)
(***************************************************************************)
call_api_stale_headers(method, path, params, json_body) ==
    [adapter |-> "dhan", method |-> method, url |-> DHAN_BASE_URL \o path,
     headers |-> [ct \in {"Content-Type"} |-> Str("application/json")]
                 @@ [h \in {"client-id"} |-> environ.DHAN_CLIENT_ID]
                 @@ [h \in {"access-token"} |-> environ.DHAN_ACCESS_TOKEN],
     params |-> serialize(OrEmpty(params)), json |-> json_body]

call_api(method, path, params, json_body) ==
    [adapter |-> "dhan", method |-> method, url |-> DHAN_BASE_URL \o path,
     headers |-> HEADERS, params |-> serialize(OrEmpty(params)), json |-> json_body]

place_order_body(a) ==
    dict_update([symbol |-> a.symbol, quantity |-> a.qty, price |-> a.price,
                 side |-> a.side, productType |-> a.product_type,
                 orderType |-> a.order_type],
                a.kwargs)

place_order(a) == call_api("POST", "/orders", NoDict, Given(place_order_body(a)))

place_super_order(a) ==
    call_api("POST", "/super-order", NoDict,
             Given([symbol |-> a.symbol, quantity |-> a.qty, entryPrice |-> a.entry_price,
                    targets |-> a.targets, stopLoss |-> a.stop_loss]))

place_forever_order(a) ==
    call_api("POST", "/forever-order", NoDict,
             Given([symbol |-> a.symbol, quantity |-> a.quantity, price |-> a.price,
                    side |-> a.side, oco |-> a.oco]))

get_order_book_post == call_api("POST", "/orders", NoDict, Given(EmptyDict))

get_order_book == call_api("GET", "/orders", NoDict, NoDict)

get_market_quote(a) == call_api("GET", "/market-quote", Given([symbols |-> a.symbols]), NoDict)

get_option_chain(a) ==
    call_api("GET", "/option-chain", Given([underlying |-> a.underlying]), NoDict)

get_historical_intraday(a) ==
    call_api("POST", "/charts/intraday", NoDict,
             Given([instrument |-> a.instrument, from |-> a.from_ts, to |-> a.to_ts,
                    timeframe |-> a.timeframe]))

get_historical_daily(a) ==
    call_api("POST", "/charts/daily", NoDict,
             Given([instrument |-> a.instrument, from |-> a.from_date, to |-> a.to_date]))

get_fund_balance == call_api("GET", "/user/funds", NoDict, NoDict)

get_account_details == call_api("GET", "/user/profile", NoDict, NoDict)

get_holdings == call_api("GET", "/holdings", NoDict, NoDict)

get_positions == call_api("GET", "/positions", NoDict, NoDict)

get_portfolio_summary == call_api("GET", "/portfolio/summary", NoDict, NoDict)

calculate_margin(a) ==
    call_api("POST", "/margin/calculate", NoDict,
             Given([symbol |-> a.symbol, quantity |-> a.qty, price |-> a.price,
                    orderType |-> a.order_type, productType |-> a.product_type]))

get_margin_benefits(a) ==
    call_api("GET", "/margin/benefits", Given([symbols |-> a.symbols]), NoDict)

place_after_market_order(a) ==
    call_api("POST", "/orders", NoDict,
             Given([symbol |-> a.symbol, quantity |-> a.qty, price |-> a.price,
                    side |-> a.side, productType |-> a.product_type,
                    afterMarket |-> Bool("True")]))

get_after_market_eligibility(a) ==
    call_api("GET", "/market/after-hours-eligibility", Given([symbols |-> a.symbols]), NoDict)

(***************************************************************************)
(* The tools and the arguments each accepts (its typed parameter list).    *)
(* A parameter typed Optional may be None; any other is never None.        *)
(***************************************************************************)
BinanceTools ==
    {"ExchangeInfoOfASymbol", "ExchangeInfoOfAllSymbols", "getTradeData", "AggTrades",
     "TradeHistory", "Depth", "CurrentAvgPrice", "PriceTickerIn24Hr", "TradingDayTicker",
     "SymbolPriceTicker", "SymbolOrderBookTicker", "RollingWindowTicker"}

DhanTools ==
    {"place_order", "place_super_order", "place_forever_order", "get_order_book",
     "get_market_quote", "get_option_chain", "get_historical_intraday",
     "get_historical_daily", "get_fund_balance", "get_account_details", "get_holdings",
     "get_positions", "get_portfolio_summary", "calculate_margin", "get_margin_benefits",
     "place_after_market_order", "get_after_market_eligibility"}

Tools == BinanceTools \cup DhanTools

\* What each tool does at the remote API, from its docstring.
OrderTools ==
    {"place_order", "place_super_order", "place_forever_order", "place_after_market_order"}
ReadTools == Tools \ OrderTools

ExtraKeys == {"quantity", "productType", "orderType", "validity"}
ExtraVals == {None, Str("IOC")}
Kwargs ==
    UNION {[ks -> ExtraVals] : ks \in {x \in SUBSET ExtraKeys : Cardinality(x) <= MaxKwargs}}

OptSymbol == {None, Str("BTCUSDT")}
OptSymbols == {None} \cup SymbolLists
OptTime == {None, Num("0")}
Limits == {Num("20"), Num("5")}
Qty == {Num("10")}
Price == {Num("101.5")}
TargetLists == {List(q) : q \in SeqsUpTo({"105"}, MaxListLen)}

ArgsOf(tool) ==
    CASE tool \in {"ExchangeInfoOfASymbol", "Depth", "CurrentAvgPrice", "PriceTickerIn24Hr"} ->
            [symbol : {Str("BTCUSDT")}]
      [] tool = "getTradeData" ->
            [symbol : {Str("BTCUSDT")}, interval : {Str("1h")}, startTime : OptTime,
             endTime : OptTime, limit : {None, Num("500")}]
      [] tool \in {"AggTrades", "TradeHistory"} ->
            [symbol : {Str("BTCUSDT")}, limit : Limits]
      [] tool \in {"TradingDayTicker", "get_market_quote", "get_margin_benefits",
                   "get_after_market_eligibility"} ->
            [symbols : SymbolLists]
      [] tool \in {"SymbolPriceTicker", "SymbolOrderBookTicker"} ->
            [symbol : OptSymbol, symbols : OptSymbols]
      [] tool = "RollingWindowTicker" ->
            [symbol : OptSymbol, symbols : OptSymbols, windowSize : {None, Str("1d")},
             type : {None, Str("MINI")}]
      [] tool = "place_order" ->
            [symbol : {Str("INFY")}, qty : Qty, price : Price, side : {Str("BUY")},
             product_type : {Str("INTRADAY")}, order_type : {Str("LIMIT")}, kwargs : Kwargs]
      [] tool = "place_super_order" ->
            [symbol : {Str("INFY")}, qty : Qty, entry_price : Price, targets : TargetLists,
             stop_loss : {Num("99")}]
      [] tool = "place_forever_order" ->
            [symbol : {Str("INFY")}, quantity : Qty, price : Price, side : {Str("SELL")},
             oco : {Bool("False"), Bool("True")}]
      [] tool = "get_option_chain" -> [underlying : {Str("NIFTY")}]
      [] tool = "get_historical_intraday" ->
            [instrument : {Str("INFY")}, from_ts : {Num("0")}, to_ts : {Num("60")},
             timeframe : {Str("1m"), Str("5m")}]
      [] tool = "get_historical_daily" ->
            [instrument : {Str("INFY")}, from_date : {Str("2024-01-01")},
             to_date : {Str("2024-01-31")}]
      [] tool = "calculate_margin" ->
            [symbol : {Str("INFY")}, qty : Qty, price : Price,
             order_type : {Str("LIMIT"), Str("MARKET")}, product_type : {Str("INTRADAY")}]
      [] tool = "place_after_market_order" ->
            [symbol : {Str("INFY")}, qty : Qty, price : Price, side : {Str("BUY")},
             product_type : {Str("DELIVERY")}]
      [] OTHER -> {EmptyDict}

Calls == UNION {{[tool |-> t, args |-> a] : a \in ArgsOf(t)} : t \in Tools}

\* The request a call hands to the HTTP client.
Request(c) ==
    LET a == c.args
    IN  CASE c.tool = "ExchangeInfoOfASymbol" -> ExchangeInfoOfASymbol(a)
          [] c.tool = "ExchangeInfoOfAllSymbols" -> ExchangeInfoOfAllSymbols
          [] c.tool = "getTradeData" -> getTradeData(a)
          [] c.tool = "AggTrades" -> AggTrades(a)
          [] c.tool = "TradeHistory" -> TradeHistory(a)
          [] c.tool = "Depth" -> Depth(a)
          [] c.tool = "CurrentAvgPrice" -> CurrentAvgPrice(a)
          [] c.tool = "PriceTickerIn24Hr" -> PriceTickerIn24Hr(a)
          [] c.tool = "TradingDayTicker" -> TradingDayTicker(a)
          [] c.tool = "SymbolPriceTicker" -> SymbolPriceTicker(a)
          [] c.tool = "SymbolOrderBookTicker" -> SymbolOrderBookTicker(a)
          [] c.tool = "RollingWindowTicker" -> RollingWindowTicker(a)
          [] c.tool = "place_order" -> place_order(a)
          [] c.tool = "place_super_order" -> place_super_order(a)
          [] c.tool = "place_forever_order" -> place_forever_order(a)
          [] c.tool = "get_order_book" -> get_order_book
          [] c.tool = "get_market_quote" -> get_market_quote(a)
          [] c.tool = "get_option_chain" -> get_option_chain(a)
          [] c.tool = "get_historical_intraday" -> get_historical_intraday(a)
          [] c.tool = "get_historical_daily" -> get_historical_daily(a)
          [] c.tool = "get_fund_balance" -> get_fund_balance
          [] c.tool = "get_account_details" -> get_account_details
          [] c.tool = "get_holdings" -> get_holdings
          [] c.tool = "get_positions" -> get_positions
          [] c.tool = "get_portfolio_summary" -> get_portfolio_summary
          [] c.tool = "calculate_margin" -> calculate_margin(a)
          [] c.tool = "get_margin_benefits" -> get_margin_benefits(a)
          [] c.tool = "place_after_market_order" -> place_after_market_order(a)
          [] c.tool = "get_after_market_eligibility" -> get_after_market_eligibility(a)

(***************************************************************************)
(* What the remote side can answer, and what the code makes of it          *)
(***************************************************************************)
Response(status, body) == [kind |-> "response", status |-> status, body |-> body]
TransportError == [kind |-> "error", status |-> 0, body |-> ""]
NoOutcome == [kind |-> "none", status |-> 0, body |-> ""]

OkJson == "{\"status\": \"ok\"}"
ErrJson == "{\"error\": \"rejected\"}"

Outcomes ==
    {Response(200, OkJson), Response(200, "accepted"), Response(204, ""),
     Response(302, ""), Response(404, ErrJson), Response(500, "<html>"), TransportError}

Return(v) == [kind |-> "return", exc |-> "", value |-> v]
Raise(e) == [kind |-> "raise", exc |-> e, value |-> None]
NoResult == [kind |-> "none", exc |-> "", value |-> None]

\* json.loads on the documents the remote side sends here; anything else is
\* no JSON document.
JsonDocs == {OkJson, ErrJson}
json_loads(text) ==
    CASE text = OkJson -> [t |-> "dict", s |-> "status=ok", items |-> <<>>]
      [] text = ErrJson -> [t |-> "dict", s |-> "error=rejected", items |-> <<>>]

\* resp.raise_for_status(): HTTPStatusError unless the status is 2xx
is_error_4xx5xx(status) == status >= 400

is_error(status) == ~(200 <= status /\ status <= 299)

\* resp.text / resp.json()
read_body(adapter, body) ==
    IF adapter = "binance" THEN Return(Str(body))
    ELSE IF body \in JsonDocs THEN Return(json_loads(body))
    ELSE Raise("JSONDecodeError")

\* The statements of the with-block after the awaited request.
handle(adapter, o) ==
    IF o.kind = "error" THEN Raise("TransportError")
    ELSE IF is_error(o.status) THEN Raise("HTTPStatusError")
    ELSE read_body(adapter, o.body)

\* Leaving `async with`: the client is closed, then the function returns
\* or the exception goes on to the caller.
exit_events_leak(p) ==
    IF p.kind = "return" THEN <<"close", "return">> ELSE <<"raise">>

exit_events(p) == <<"close", p.kind>>

closes_client(p) == "close" \in {exit_events(p)[n] : n \in 1..Len(exit_events(p))}

(***************************************************************************)
(* Module load: os.getenv and the HEADERS literal                          *)
(***************************************************************************)
EnvValues == {None, Str("cred-A"), Str("cred-B")}
Envs == [DHAN_CLIENT_ID : EnvValues, DHAN_ACCESS_TOKEN : EnvValues]

getenv(env, name) == env[name]

make_headers(client_id, access_token) ==
    [k \in {"Content-Type", "client-id", "access-token"} |->
        CASE k = "Content-Type" -> Str("application/json")
          [] k = "client-id" -> client_id
          [] k = "access-token" -> access_token]

Tasks == 1..MaxTasks

NoCall == [tool |-> "", args |-> EmptyDict]

TasksIdle ==
    /\ pc = [i \in Tasks |-> "idle"]
    /\ call = [i \in Tasks |-> NoCall]
    /\ wire = [i \in Tasks |-> <<>>]
    /\ outcome = [i \in Tasks |-> NoOutcome]
    /\ pending = [i \in Tasks |-> NoResult]
    /\ result = [i \in Tasks |-> NoResult]
    /\ events = [i \in Tasks |-> <<>>]
    /\ open = {}

ModuleLoaded(env) ==
    /\ environ = env
    /\ startEnv = env
    /\ CLIENT_ID = getenv(env, "DHAN_CLIENT_ID")
    /\ ACCESS_TOKEN = getenv(env, "DHAN_ACCESS_TOKEN")
    /\ HEADERS = make_headers(getenv(env, "DHAN_CLIENT_ID"), getenv(env, "DHAN_ACCESS_TOKEN"))
    /\ DHAN_BASE_URL = "https://api.dhan.co/v2"
    /\ BINANCE_BASE_URL = "https://api.binance.com/api/v3/"

SerializerIdle ==
    /\ sIn = EmptyDict
    /\ sParams = EmptyDict
    /\ sOutB = EmptyDict
    /\ sOutD = EmptyDict
    /\ sDone = FALSE

Init ==
    /\ \E env \in Envs : ModuleLoaded(env)
    /\ TasksIdle
    /\ SerializerIdle

(***************************************************************************)
(* A tool invocation.  The only points where another task can run are the  *)
(* awaits: the request, and leaving the with-block.                        *)
(***************************************************************************)
\* What the call to client.request / client.get leaves in HEADERS.
headers_after_merge(h, req) == h @@ req.params

headers_after(h, req) == h

\* The requests one invocation issues for its request descriptor.
issue(req) == <<req>>

\* From the call to the awaited request: build the arguments, open the
\* client, hand the request to it.
Invoke(i, calls) ==
    /\ pc[i] = "idle"
    /\ \E c \in calls :
         LET req == Request(c)
         IN  /\ call' = [call EXCEPT ![i] = c]
             /\ wire' = [wire EXCEPT ![i] = issue(req)]
             /\ HEADERS' = headers_after(HEADERS, req)
    /\ events' = [events EXCEPT ![i] = <<"open", "request">>]
    /\ open' = open \cup {i}
    /\ pc' = [pc EXCEPT ![i] = "waiting"]
    /\ UNCHANGED <<environ, startEnv, CLIENT_ID, ACCESS_TOKEN, DHAN_BASE_URL,
                   BINANCE_BASE_URL, outcome, pending, result, serVars>>

\* The awaited request completes or raises; the rest of the with-block runs.
Respond(i, outcomes) ==
    /\ pc[i] = "waiting"
    /\ \E o \in outcomes :
         /\ outcome' = [outcome EXCEPT ![i] = o]
         /\ pending' = [pending EXCEPT ![i] = handle(wire[i][1].adapter, o)]
    /\ pc' = [pc EXCEPT ![i] = "closing"]
    /\ UNCHANGED <<environ, startEnv, configVars, call, wire, result, events, open, serVars>>

\* The with-block is left and the caller gets the value or the exception.
Close(i) ==
    /\ pc[i] = "closing"
    /\ open' = IF closes_client(pending[i]) THEN open \ {i} ELSE open
    /\ events' = [events EXCEPT ![i] = @ \o exit_events(pending[i])]
    /\ result' = [result EXCEPT ![i] = pending[i]]
    /\ pc' = [pc EXCEPT ![i] = "done"]
    /\ UNCHANGED <<environ, startEnv, configVars, call, wire, outcome, pending, serVars>>

\* The framework is done with the invocation; the task can serve another.
\* The client object of the finished invocation is gone with its frame.
Forget(i) ==
    /\ pc[i] = "done"
    /\ i \notin open
    /\ pc' = [pc EXCEPT ![i] = "idle"]
    /\ call' = [call EXCEPT ![i] = NoCall]
    /\ wire' = [wire EXCEPT ![i] = <<>>]
    /\ outcome' = [outcome EXCEPT ![i] = NoOutcome]
    /\ pending' = [pending EXCEPT ![i] = NoResult]
    /\ result' = [result EXCEPT ![i] = NoResult]
    /\ events' = [events EXCEPT ![i] = <<>>]
    /\ UNCHANGED <<environ, startEnv, configVars, open, serVars>>

\* The process environment changes after the module was loaded.
SetEnv ==
    /\ \E env \in Envs \ {environ} : environ' = env
    /\ UNCHANGED <<startEnv, configVars, taskVars, serVars>>

\* One invocation at a time, every call and every answer.
Next ==
    \/ Invoke(1, Calls)
    \/ Respond(1, Outcomes)
    \/ Close(1)
    \/ Forget(1)
    \/ SetEnv

Spec == Init /\ [][Next]_vars

(***************************************************************************)
(* Concurrent invocations: the framework runs up to MaxTasks tools at      *)
(* once, one invocation per task, interleaved at the awaits.  One call per *)
(* tool (every argument given, one-element lists), and place_order with    *)
(* and without an extra keyword argument.                                  *)
(***************************************************************************)
ConcArgs(t) ==
    IF t = "place_order"
    THEN {a \in ArgsOf(t) : a.kwargs \in {EmptyDict, [k \in {"quantity"} |-> None]}}
    ELSE {CHOOSE a \in ArgsOf(t) :
            \A k \in DOMAIN a : a[k] # None /\ (a[k].t = "list" => Len(a[k].items) = 1)}

ConcCalls == UNION {{[tool |-> t, args |-> a] : a \in ConcArgs(t)} : t \in Tools}

ConcOutcomes == {Response(200, OkJson), Response(500, "<html>")}

InitConc ==
    /\ ModuleLoaded([DHAN_CLIENT_ID |-> Str("cred-A"), DHAN_ACCESS_TOKEN |-> Str("cred-B")])
    /\ TasksIdle
    /\ SerializerIdle

NextConc ==
    \E i \in Tasks :
        \/ Invoke(i, ConcCalls)
        \/ Respond(i, ConcOutcomes)
        \/ Close(i)

SpecConc == InitConc /\ [][NextConc]_vars

(***************************************************************************)
(* The serializers as pure functions: the caller passes a mapping and both *)
(* serializers are applied to it.                                          *)
(***************************************************************************)
SerKeys == {"symbol", "symbols", "limit"}
SerValues ==
    {None, Num("0"), Bool("False"), Str(""), Str("BTCUSDT"), Str("[]"),
     Tuple(<<"BTCUSDT">>)} \cup SymbolLists
Mappings ==
    UNION {[ks -> SerValues] : ks \in {x \in SUBSET SerKeys : Cardinality(x) <= MaxParams}}

InitSerialize ==
    /\ ModuleLoaded([DHAN_CLIENT_ID |-> None, DHAN_ACCESS_TOKEN |-> None])
    /\ TasksIdle
    /\ sIn \in Mappings
    /\ sParams = sIn
    /\ sOutB = EmptyDict
    /\ sOutD = EmptyDict
    /\ sDone = FALSE

Serialize ==
    /\ ~sDone
    /\ sOutB' = serialize_params(sParams)
    /\ sOutD' = serialize(sParams)
    /\ sParams' = serialize_run(sParams).params
    /\ sDone' = TRUE
    /\ UNCHANGED <<sIn, environ, startEnv, configVars, taskVars>>

NextSerialize == Serialize

SpecSerialize == InitSerialize /\ [][NextSerialize]_vars

(***************************************************************************)
(* Properties                                                              *)
(***************************************************************************)
Started(i) == pc[i] # "idle"
Answered(i) == pc[i] \in {"closing", "done"}
Req(i) == wire[i][1]
HasNull(d) == \E k \in DOMAIN d : d[k] = None
Success(o) == o.kind = "response" /\ o.status \in 200..299

\* out is inp without its null-valued keys, lists replaced by their JSON text
SerializedAs(inp, out) ==
    /\ DOMAIN out = {k \in DOMAIN inp : inp[k] # None}
    /\ \A k \in DOMAIN out :
         IF inp[k].t = "list"
         THEN /\ out[k] = Str("[" \o json_join(inp[k].items) \o "]")
              /\ inp[k].items = <<>> => out[k] = Str("[]")
         ELSE out[k] = inp[k]

\* C1: both serializers return the input's non-null keys, every list value
\* replaced by its JSON text (the empty list by "[]"), every other value
\* unchanged, and leave the input mapping as it was.
C1_Serializers ==
    sDone => /\ SerializedAs(sIn, sOutB)
             /\ SerializedAs(sIn, sOutD)
             /\ sParams = sIn

C1_Witness ==
    /\ sDone
    /\ \E k \in DOMAIN sIn : sIn[k] = None
    /\ \E k \in DOMAIN sIn : sIn[k] = List(<<>>) /\ sOutB[k] = Str("[]") /\ sOutD[k] = Str("[]")

\* C2: a non-2xx answer ends the invocation in the HTTP client's error: no
\* body is returned, and the request is not sent again.
C2_NonSuccessRaises ==
    \A i \in Tasks :
        (Answered(i) /\ outcome[i].kind = "response" /\ outcome[i].status \notin 200..299)
        => /\ pending[i] = Raise("HTTPStatusError")
           /\ Len(wire[i]) = 1
           /\ pc[i] = "done" => result[i] = Raise("HTTPStatusError")

C2_Witness ==
    /\ pc[1] = "done"
    /\ outcome[1].status = 302
    /\ result[1].kind = "raise"

\* C3: an invocation opens one client, issues one request, closes the
\* client and only then returns or raises; no client stays open after it.
C3_EventOrder ==
    \A i \in Tasks :
        /\ Len(wire[i]) <= 1
        /\ pc[i] = "waiting" => events[i] = <<"open", "request">> /\ i \in open
        /\ pc[i] = "done" =>
              /\ events[i] \in {<<"open", "request", "close", "return">>,
                                <<"open", "request", "close", "raise">>}
              /\ Len(wire[i]) = 1
              /\ i \notin open
        /\ pc[i] = "idle" => i \notin open

C3_Witness ==
    /\ pc[1] = "done"
    /\ outcome[1] = TransportError
    /\ events[1] = <<"open", "request", "close", "raise">>

\* C4 as claimed: every read-only tool issues GET and every order-placement
\* tool issues POST.
C4_Original ==
    \A i \in Tasks :
        Started(i) => /\ call[i].tool \in ReadTools => Req(i).method = "GET"
                      /\ call[i].tool \in OrderTools => Req(i).method = "POST"

\* C4 as amended: every order-placement tool issues POST; of the read-only
\* tools, the two historical-chart tools and the margin calculation issue
\* POST and every other one issues GET.  So a GET is always a read.
PostReadTools == {"get_historical_intraday", "get_historical_daily", "calculate_margin"}

C4_Methods ==
    \A i \in Tasks :
        Started(i) =>
            /\ call[i].tool \in OrderTools \cup PostReadTools => Req(i).method = "POST"
            /\ call[i].tool \in ReadTools \ PostReadTools => Req(i).method = "GET"
            /\ Req(i).method = "GET" => call[i].tool \in ReadTools

C4_Witness ==
    /\ Started(1)
    /\ call[1].tool = "calculate_margin"
    /\ Req(1).method = "POST"

\* C5: a GET carries its arguments as query parameters and has no JSON
\* body; a POST carries a JSON body and has no query parameters.
C5_ArgumentPlace ==
    \A i \in Tasks :
        Started(i) =>
            /\ Req(i).method \in {"GET", "POST"}
            /\ Req(i).method = "GET" =>
                  /\ ~Req(i).json.given
                  /\ Cardinality(DOMAIN Req(i).params)
                        = Cardinality({k \in DOMAIN call[i].args : call[i].args[k] # None})
            /\ Req(i).method = "POST" =>
                  /\ Req(i).params = EmptyDict
                  /\ Req(i).json.given
                  /\ Req(i).json.dict # EmptyDict

C5_Witness ==
    /\ Started(1)
    /\ call[1].tool = "SymbolPriceTicker"
    /\ DOMAIN Req(1).params = {"symbol", "symbols"}
    /\ ~Req(1).json.given

\* C6 as claimed: no outbound request has a null-valued entry, neither
\* among its query parameters nor in its JSON body.
C6_Original ==
    \A i \in Tasks :
        Started(i) => ~HasNull(Req(i).params) /\ ~HasNull(Req(i).json.dict)

\* C6 as amended: no outbound request has a null-valued query parameter;
\* a JSON body is sent as built, so it has a null-valued entry exactly when
\* place_order was given an extra keyword argument whose value is null.
C6_NullsDropped ==
    \A i \in Tasks :
        Started(i) =>
            /\ ~HasNull(Req(i).params)
            /\ HasNull(Req(i).json.dict)
                  <=> (call[i].tool = "place_order" /\ HasNull(call[i].args.kwargs))

C6_Witness ==
    /\ Started(1)
    /\ call[1].tool = "RollingWindowTicker"
    /\ call[1].args.symbol = None
    /\ call[1].args.type = None
    /\ DOMAIN Req(1).params = {"symbols", "windowSize"}

\* C7: a 2xx answer always ends in the response body being returned (the
\* text for the crypto adapter, the parsed body for the brokerage adapter),
\* never in an error, whatever the body.
C7_SuccessReturns ==
    \A i \in Tasks :
        (Answered(i) /\ Success(outcome[i])) => pending[i].kind = "return"

\* C8: with invocations interleaved, the module-level configuration stays
\* as loaded, each invocation's request is the one its own tool and
\* arguments give, and its result the one its own answer gives.
ConfigAsLoaded ==
    /\ CLIENT_ID = startEnv.DHAN_CLIENT_ID
    /\ ACCESS_TOKEN = startEnv.DHAN_ACCESS_TOKEN
    /\ HEADERS = make_headers(startEnv.DHAN_CLIENT_ID, startEnv.DHAN_ACCESS_TOKEN)
    /\ DHAN_BASE_URL = "https://api.dhan.co/v2"
    /\ BINANCE_BASE_URL = "https://api.binance.com/api/v3/"

C8_Independent ==
    /\ ConfigAsLoaded
    /\ \A i \in Tasks :
         /\ Started(i) => wire[i] = <<Request(call[i])>>
         /\ Answered(i) => pending[i] = handle(Req(i).adapter, outcome[i])
         /\ pc[i] = "done" => result[i] = pending[i]

C8_Witness ==
    /\ pc[1] = "done"
    /\ pc[2] = "waiting"
    /\ call[1].tool = "place_order"
    /\ call[2].tool = "place_order"
    /\ call[1].args # call[2].args

\* C9: every request of the brokerage adapter goes to the fixed base URL
\* followed by the tool's path, with the three headers as they were built
\* from the environment at module load, whatever happened since.
DhanPath(tool) ==
    CASE tool \in {"place_order", "get_order_book", "place_after_market_order"} -> "/orders"
      [] tool = "place_super_order" -> "/super-order"
      [] tool = "place_forever_order" -> "/forever-order"
      [] tool = "get_market_quote" -> "/market-quote"
      [] tool = "get_option_chain" -> "/option-chain"
      [] tool = "get_historical_intraday" -> "/charts/intraday"
      [] tool = "get_historical_daily" -> "/charts/daily"
      [] tool = "get_fund_balance" -> "/user/funds"
      [] tool = "get_account_details" -> "/user/profile"
      [] tool = "get_holdings" -> "/holdings"
      [] tool = "get_positions" -> "/positions"
      [] tool = "get_portfolio_summary" -> "/portfolio/summary"
      [] tool = "calculate_margin" -> "/margin/calculate"
      [] tool = "get_margin_benefits" -> "/margin/benefits"
      [] tool = "get_after_market_eligibility" -> "/market/after-hours-eligibility"

C9_FixedHeaders ==
    \A i \in Tasks :
        (Started(i) /\ call[i].tool \in DhanTools) =>
            /\ Req(i).url = "https://api.dhan.co/v2" \o DhanPath(call[i].tool)
            /\ DOMAIN Req(i).headers = {"Content-Type", "client-id", "access-token"}
            /\ Req(i).headers["Content-Type"] = Str("application/json")
            /\ Req(i).headers["client-id"] = startEnv.DHAN_CLIENT_ID
            /\ Req(i).headers["access-token"] = startEnv.DHAN_ACCESS_TOKEN

C9_Witness ==
    /\ Started(1)
    /\ call[1].tool \in DhanTools
    /\ environ.DHAN_ACCESS_TOKEN # startEnv.DHAN_ACCESS_TOKEN
    /\ Req(1).headers["access-token"] = startEnv.DHAN_ACCESS_TOKEN
    /\ startEnv.DHAN_ACCESS_TOKEN # None

\* C10: the body of place_order is the six named fields with the extra
\* keyword arguments merged in afterwards: its keys are the six field names
\* and the extra keywords, every extra keyword has its given value, and
\* every other field has the value of its named argument.
PlaceOrderFields ==
    [symbol |-> "symbol", quantity |-> "qty", price |-> "price", side |-> "side",
     productType |-> "product_type", orderType |-> "order_type"]

C10_PlaceOrderBody ==
    \A i \in Tasks :
        (Started(i) /\ call[i].tool = "place_order") =>
            LET a == call[i].args
                body == Req(i).json.dict
            IN  /\ DOMAIN body = DOMAIN PlaceOrderFields \cup DOMAIN a.kwargs
                /\ \A k \in DOMAIN a.kwargs : body[k] = a.kwargs[k]
                /\ \A k \in DOMAIN PlaceOrderFields \ DOMAIN a.kwargs :
                      body[k] = a[PlaceOrderFields[k]]

C10_Witness ==
    /\ Started(1)
    /\ call[1].tool = "place_order"
    /\ "quantity" \in DOMAIN call[1].args.kwargs
    /\ call[1].args.kwargs["quantity"] # call[1].args.qty
    /\ Req(1).json.dict["quantity"] = call[1].args.kwargs["quantity"]

====
